---- MODULE Spec2Model ----
(***************************************************************************)
(* ConstQueue<Ty, SIZE>: a fixed-capacity ring buffer over an array of     *)
(* Option<Ty> slots with two cursors, start and end (src/src/lib.rs).      *)
(*                                                                         *)
(* The methods are modelled as operators from a queue value (a record of   *)
(* the struct's fields) to the queue value after the call and the value    *)
(* returned; one action per method applies the operator to the state.      *)
(* History variables record what the calls accepted and returned.          *)
(***************************************************************************)
EXTENDS Integers, Naturals, Sequences, FiniteSets

\* ---------------------------------------------------------------- bounds

\* The largest const parameter SIZE a queue is instantiated with.
MaxSize == 3

\* The element type Ty is modelled as the values 0..MaxItem.
MaxItem == 1

\* The number of items a run may get accepted by push / force_push.
MaxPushes == 5

\* The value of Ty whose representation is all zero bits.
ZeroBits == 0

Ty == 0..MaxItem

\* ------------------------------------------------------- values and results

\* Option<Ty>: None is the empty tuple, Some(x) the tuple of x.
None == <<>>
Some(x) == <<x>>
is_some(o) == Len(o) = 1
is_none(o) == Len(o) = 0
unwrap(o) == o[1]

\* Result<_, QueueErr>, and the unit value of Ok(())
Unit == "()"
Ok(x) == [ok |-> x]
Err(e) == [err |-> e]
is_ok(r) == "ok" \in DOMAIN r
is_err(r) == "err" \in DOMAIN r

\* enum QueueErr
QueueErr == {"QueueFull", "Empty", "UnknownError"}

\* How a call that returns no Result ends: with its value, or with a panic
\* (panic!, Option::unwrap on None).
Returned(x) == [val |-> x]
Panic(msg) == [panic |-> msg]
is_panic(r) == "panic" \in DOMAIN r

\* ------------------------------------------------------------------ state

VARIABLES
    SIZE,       \* the const generic parameter of this queue
    buff,       \* [Option<Ty>; SIZE], indexed 0..SIZE-1
    start,      \* index of the oldest element
    end,        \* index of the next slot to write
    op,         \* the method called last ("new" after construction)
    arg,        \* its argument (None for a method without one)
    ret,        \* what it returned, or the panic that ended it
    pushed,     \* history: the items accepted by push / force_push, in order
    popped,     \* history: the items returned by pop / next, in order
    streak,     \* history: results of the pushes since the queue was last
                \* empty, None once a removal has come in between
    snap,       \* history: the stored elements, oldest first, when the
                \* current run of next() calls began
    yielded     \* history: what the next() calls of the current run returned

vars == <<SIZE, buff, start, end, op, arg, ret, pushed, popped, streak, snap, yielded>>

\* The struct's fields as one value.
self == [buff |-> buff, start |-> start, end |-> end]

\* ConstQueue::new. core::mem::zeroed() fills every slot with zero bits: for
\* an element type whose Option keeps None at the all-zero pattern that is
\* None, for one whose Option keeps None in a niche elsewhere (bool, char)
\* it is Some of the zero value.
new ==
    {[buff |-> [i \in 0..(SIZE - 1) |-> z], start |-> 0, end |-> 0] :
        z \in {None, Some(ZeroBits)}}

\* --------------------------------------------------------------- methods

\* Faulty peek: the branch for a wrapped queue (start > end) is missing.
peek_no_wrapped_branch(q) ==
    IF q.start < q.end
    THEN IF is_some(q.buff[q.start])
         THEN Ok(unwrap(q.buff[q.start]))
         ELSE Err("UnknownError")
    ELSE Err("Empty")

\* Faulty peek: the first test is start <= end, so that an empty queue is
\* looked into.
peek_le(q) ==
    IF q.start <= q.end
    THEN IF is_some(q.buff[q.start])
         THEN Ok(unwrap(q.buff[q.start]))
         ELSE Err("UnknownError")
    ELSE IF q.start > q.end
    THEN IF is_some(q.buff[q.start])
         THEN Ok(unwrap(q.buff[q.start]))
         ELSE Err("UnknownError")
    ELSE Err("Empty")

\* ConstQueue::peek: the element at start, by reference (modelled by value).
peek(q) ==
    IF q.start < q.end
    THEN IF is_some(q.buff[q.start])
         THEN Ok(unwrap(q.buff[q.start]))
         ELSE Err("UnknownError")
    ELSE IF q.start > q.end
    THEN IF is_some(q.buff[q.start])
         THEN Ok(unwrap(q.buff[q.start]))
         ELSE Err("UnknownError")
    ELSE Err("Empty")

\* Faulty empty: the final return is true.
empty_ok_is_true(q) ==
    LET first == peek(q)
    IN  IF is_err(first) THEN first.err = "Empty" ELSE TRUE

\* ConstQueue::empty
empty(q) ==
    LET first == peek(q)
    IN  IF is_err(first) THEN first.err = "Empty" ELSE FALSE

\* Faulty push: no test for a full queue.
push_unchecked(q, item) ==
    LET next_end == (q.end + 1) % SIZE
    IN  [q |-> [q EXCEPT !.buff[q.end] = Some(item), !.end = next_end],
         ret |-> Ok(Unit)]

\* Faulty push: the item is stored before the test for a full queue.
push_store_first(q, item) ==
    LET next_end == (q.end + 1) % SIZE
        q1 == [q EXCEPT !.buff[q.end] = Some(item)]
    IN  IF next_end = q.start
        THEN [q |-> q1, ret |-> Err("QueueFull")]
        ELSE [q |-> [q1 EXCEPT !.end = next_end], ret |-> Ok(Unit)]

\* Faulty push: the item is stored in the slot after end.
push_store_at_next(q, item) ==
    LET next_end == (q.end + 1) % SIZE
    IN  IF next_end = q.start
        THEN [q |-> q, ret |-> Err("QueueFull")]
        ELSE [q |-> [q EXCEPT !.buff[next_end] = Some(item), !.end = next_end],
              ret |-> Ok(Unit)]

\* Faulty push: end is advanced and the item is not stored.
push_no_store(q, item) ==
    LET next_end == (q.end + 1) % SIZE
    IN  IF next_end = q.start
        THEN [q |-> q, ret |-> Err("QueueFull")]
        ELSE [q |-> [q EXCEPT !.end = next_end], ret |-> Ok(Unit)]

\* Faulty push: the queue counts as full one element early.
push_full_early(q, item) ==
    LET next_end == (q.end + 1) % SIZE
    IN  IF next_end = q.start \/ (next_end + 1) % SIZE = q.start
        THEN [q |-> q, ret |-> Err("QueueFull")]
        ELSE [q |-> [q EXCEPT !.buff[q.end] = Some(item), !.end = next_end],
              ret |-> Ok(Unit)]

\* ConstQueue::push: the queue after the call and the result.
push(q, item) ==
    LET next_end == (q.end + 1) % SIZE
    IN  IF next_end = q.start
        THEN [q |-> q, ret |-> Err("QueueFull")]
        ELSE [q |-> [q EXCEPT !.buff[q.end] = Some(item), !.end = next_end],
              ret |-> Ok(Unit)]

\* Faulty force_push: the result of push is dropped, nothing panics.
force_push_silent(q, item) ==
    LET r == push(q, item)
    IN  [q |-> r.q, ret |-> Returned(Unit)]

\* ConstQueue::force_push
force_push(q, item) ==
    LET r == push(q, item)
    IN  IF is_err(r.ret)
        THEN [q |-> r.q, ret |-> Panic("Queue is full")]
        ELSE [q |-> r.q, ret |-> Returned(Unit)]

\* Faulty pop: start is advanced before the slot is read.
pop_advance_first(q) ==
    IF q.start = q.end
    THEN [q |-> q, ret |-> Err("Empty")]
    ELSE LET next_start == (q.start + 1) % SIZE
             taken == q.buff[next_start]
             q1 == [q EXCEPT !.buff[next_start] = None]
         IN  IF is_none(taken)
             THEN [q |-> [q1 EXCEPT !.start = next_start],
                   ret |-> Panic("unwrap on None")]
             ELSE [q |-> [q1 EXCEPT !.start = next_start],
                   ret |-> Ok(unwrap(taken))]

\* Faulty pop: start is advanced before the test for an empty queue.
pop_advance_always(q) ==
    LET next_start == (q.start + 1) % SIZE
        taken == q.buff[q.start]
        q1 == [q EXCEPT !.buff[q.start] = None]
    IN  IF q.start = q.end
        THEN [q |-> [q EXCEPT !.start = next_start], ret |-> Err("Empty")]
        ELSE IF is_none(taken)
             THEN [q |-> q1, ret |-> Panic("unwrap on None")]
             ELSE [q |-> [q1 EXCEPT !.start = next_start],
                   ret |-> Ok(unwrap(taken))]

\* Faulty pop: the element is copied out and stays in its slot.
pop_keep_slot(q) ==
    IF q.start = q.end
    THEN [q |-> q, ret |-> Err("Empty")]
    ELSE LET next_start == (q.start + 1) % SIZE
             taken == q.buff[q.start]
         IN  IF is_none(taken)
             THEN [q |-> q, ret |-> Panic("unwrap on None")]
             ELSE [q |-> [q EXCEPT !.start = next_start],
                   ret |-> Ok(unwrap(taken))]

\* ConstQueue::pop. take() leaves None in the slot; unwrap() of a None
\* panics before start is advanced.
pop(q) ==
    IF q.start = q.end
    THEN [q |-> q, ret |-> Err("Empty")]
    ELSE LET next_start == (q.start + 1) % SIZE
             taken == q.buff[q.start]
             q1 == [q EXCEPT !.buff[q.start] = None]
         IN  IF is_none(taken)
             THEN [q |-> q1, ret |-> Panic("unwrap on None")]
             ELSE [q |-> [q1 EXCEPT !.start = next_start],
                   ret |-> Ok(unwrap(taken))]

\* Faulty next: the element is read with peek and stays in the queue.
next_by_peek(q) ==
    LET item == peek(q)
    IN  IF is_ok(item)
        THEN [q |-> q, ret |-> Returned(Some(item.ok))]
        ELSE [q |-> q, ret |-> Returned(None)]

\* <ConstQueue as Iterator>::next
next(q) ==
    LET item == pop(q)
    IN  IF is_panic(item.ret)
        THEN item
        ELSE IF is_ok(item.ret)
             THEN [q |-> item.q, ret |-> Returned(Some(item.ret.ok))]
             ELSE [q |-> item.q, ret |-> Returned(None)]

\* ------------------------------------------------------------- histories

\* The items accepted and not yet returned, in push order.
Pending == SubSeq(pushed, Len(popped) + 1, Len(pushed))

\* The push results recorded since the queue was last empty: a removal
\* that leaves the queue empty starts a new record, one that leaves
\* elements behind ends it.
AfterRemoval(q) == IF q.start = q.end THEN Some(<<>>) ELSE None

\* Of a streak only the first SIZE pushes are recorded.
AfterPush(r) ==
    IF is_some(streak) /\ Len(unwrap(streak)) < SIZE
    THEN Some(Append(unwrap(streak), IF is_ok(r) THEN "Ok" ELSE r.err))
    ELSE streak

\* Of a run of next() calls the results are recorded up to the second None.
AfterNext(r) ==
    IF Len(yielded) < Len(IF yielded = <<>> THEN Pending ELSE snap) + 2
    THEN Append(yielded, r)
    ELSE yielded

\* --------------------------------------------------------------- actions

\* A panic ends the run.
Running == ~is_panic(ret)

Store(q) ==
    /\ buff' = q.buff
    /\ start' = q.start
    /\ end' = q.end

Init ==
    /\ SIZE \in 1..MaxSize
    /\ \E q \in new :
        /\ buff = q.buff
        /\ start = q.start
        /\ end = q.end
    /\ op = "new"
    /\ arg = None
    /\ ret = Returned(Unit)
    /\ pushed = <<>>
    /\ popped = <<>>
    /\ streak = Some(<<>>)
    /\ snap = <<>>
    /\ yielded = <<>>

Push(item) ==
    /\ Running
    /\ Len(pushed) < MaxPushes
    /\ LET r == push(self, item)
       IN  /\ Store(r.q)
           /\ op' = "push"
           /\ arg' = Some(item)
           /\ ret' = r.ret
           /\ pushed' = IF is_ok(r.ret) THEN Append(pushed, item) ELSE pushed
           /\ streak' = AfterPush(r.ret)
    /\ snap' = <<>>
    /\ yielded' = <<>>
    /\ UNCHANGED <<SIZE, popped>>

ForcePush(item) ==
    /\ Running
    /\ Len(pushed) < MaxPushes
    /\ LET r == force_push(self, item)
       IN  /\ Store(r.q)
           /\ op' = "force_push"
           /\ arg' = Some(item)
           /\ ret' = r.ret
           /\ pushed' = IF is_panic(r.ret) THEN pushed ELSE Append(pushed, item)
           /\ streak' = AfterPush(IF is_panic(r.ret) THEN Err("QueueFull") ELSE Ok(Unit))
    /\ snap' = <<>>
    /\ yielded' = <<>>
    /\ UNCHANGED <<SIZE, popped>>

Peek ==
    /\ Running
    /\ op' = "peek"
    /\ arg' = None
    /\ ret' = peek(self)
    /\ UNCHANGED <<SIZE, buff, start, end, pushed, popped, streak, snap, yielded>>

Empty ==
    /\ Running
    /\ op' = "empty"
    /\ arg' = None
    /\ ret' = Returned(empty(self))
    /\ UNCHANGED <<SIZE, buff, start, end, pushed, popped, streak, snap, yielded>>

Pop ==
    /\ Running
    /\ LET r == pop(self)
       IN  /\ Store(r.q)
           /\ op' = "pop"
           /\ arg' = None
           /\ ret' = r.ret
           /\ popped' = IF is_ok(r.ret) THEN Append(popped, r.ret.ok) ELSE popped
           /\ streak' = AfterRemoval(r.q)
    /\ snap' = <<>>
    /\ yielded' = <<>>
    /\ UNCHANGED <<SIZE, pushed>>

IterNext ==
    /\ Running
    /\ LET r == next(self)
       IN  /\ Store(r.q)
           /\ op' = "next"
           /\ arg' = None
           /\ ret' = r.ret
           /\ popped' = IF ~is_panic(r.ret) /\ is_some(r.ret.val)
                        THEN Append(popped, unwrap(r.ret.val))
                        ELSE popped
           /\ streak' = AfterRemoval(r.q)
           /\ yielded' = IF is_panic(r.ret) THEN yielded ELSE AfterNext(r.ret.val)
    /\ snap' = IF yielded = <<>> THEN Pending ELSE snap
    /\ UNCHANGED <<SIZE, pushed>>

Next ==
    \/ \E item \in Ty : Push(item)
    \/ \E item \in Ty : ForcePush(item)
    \/ Peek
    \/ Empty
    \/ Pop
    \/ IterNext

Spec == Init /\ [][Next]_vars

\* ------------------------------------------------------------ properties

IsPrefix(s, t) == Len(s) <= Len(t) /\ SubSeq(t, 1, Len(s)) = s

Full(q) == (q.end + 1) % SIZE = q.start

Unchanged == buff' = buff /\ start' = start /\ end' = end

\* C1: for SIZE >= 2 the queue behaves as an abstract FIFO sequence of
\* capacity SIZE-1 over every interleaving of calls: the items returned by
\* pop are, in order, a prefix of the items accepted by push; at most SIZE-1
\* accepted items are waiting; push is refused only when SIZE-1 are waiting
\* and pop only when none is (nothing lost); peek and empty report the head
\* and the emptiness of the waiting items.
C1_FifoRefinement ==
    SIZE >= 2 =>
        /\ IsPrefix(popped, pushed)
        /\ Len(Pending) <= SIZE - 1
        /\ (op = "push" /\ is_err(ret)) => Len(Pending) = SIZE - 1
        /\ (op = "push" /\ is_ok(ret)) => Pending # <<>> /\ pushed[Len(pushed)] = unwrap(arg)
        /\ (op = "pop" /\ is_err(ret)) => Pending = <<>>
        /\ (op = "pop" /\ is_ok(ret)) => popped[Len(popped)] = ret.ok
        /\ (op = "peek") =>
              ret = IF Pending = <<>> THEN Err("Empty") ELSE Ok(Head(Pending))
        /\ (op = "empty") => ret.val = (Pending = <<>>)

\* C1 witness: a queue of SIZE >= 3 has returned SIZE or more items, not all
\* equal, by pop (start has wrapped past index SIZE-1) and still holds one.
C1_Witness ==
    /\ SIZE >= 3
    /\ op = "pop"
    /\ is_ok(ret)
    /\ Len(popped) >= SIZE
    /\ popped[1] # popped[2]
    /\ Pending # <<>>

\* C2: from any empty state (start = end, at any index) the first SIZE-1
\* pushes with no removal in between succeed, empty() is false after the
\* first of them, and the SIZE-th push fails with QueueFull.
C2_FillFromEmpty ==
    is_some(streak) =>
        /\ \A i \in 1..Len(unwrap(streak)) :
              unwrap(streak)[i] = IF i <= SIZE - 1 THEN "Ok" ELSE "QueueFull"
        /\ (Len(unwrap(streak)) >= 1 /\ unwrap(streak)[1] = "Ok") => ~empty(self)

\* C2 witness: a queue of SIZE >= 3 that was emptied at an index other than
\* 0 has taken SIZE-1 pushes and refused the SIZE-th.
C2_Witness ==
    /\ SIZE >= 3
    /\ is_some(streak)
    /\ Len(unwrap(streak)) = SIZE
    /\ start # 0
    /\ op = "push"
    /\ ret = Err("QueueFull")

\* C3: a push that fails returns QueueFull and leaves start, end and every
\* slot as they were, so the rejected item is stored nowhere and the items
\* waiting to be popped are the same.
C3_FailedPushNoEffect ==
    [][(op' = "push" /\ is_err(ret')) =>
          /\ ret' = Err("QueueFull")
          /\ Unchanged
          /\ Pending' = Pending]_vars

\* C3 witness: a push was refused by a full queue whose cursors are not at
\* their initial positions.
C3_Witness ==
    /\ op = "push"
    /\ ret = Err("QueueFull")
    /\ SIZE >= 3
    /\ start # 0
    /\ end # 0

\* C4: in a state with start = end, pop fails with Empty and leaves start,
\* end and every slot unchanged.
C4_PopOnEmpty ==
    [][(op' = "pop" /\ start = end) =>
          /\ ret' = Err("Empty")
          /\ Unchanged]_vars

\* C4 witness: pop failed on a queue emptied at an index other than 0.
C4_Witness ==
    /\ op = "pop"
    /\ ret = Err("Empty")
    /\ start = end
    /\ start # 0
    /\ Len(popped) >= 1

\* C5: in a non-empty state peek returns Ok with the oldest stored element,
\* which is the value the next pop returns, and changes no field.
C5_PeekOldest ==
    [][(op' = "peek" /\ (start # end \/ Pending # <<>>)) =>
          /\ ret' = Ok(Head(Pending))
          /\ pop(self').ret = ret'
          /\ Unchanged]_vars

\* C5 witness: peek returned the oldest of two different stored elements of
\* a queue whose stored run wraps past index SIZE-1.
C5_Witness ==
    /\ op = "peek"
    /\ is_ok(ret)
    /\ start > end
    /\ Len(Pending) >= 2
    /\ Pending[1] # Pending[2]
    /\ ret.ok = Pending[1]

\* C6: in a state with start = end, fresh or emptied at any index, peek
\* fails with Empty and changes no field.
C6_PeekOnEmpty ==
    [][(op' = "peek" /\ start = end) =>
          /\ ret' = Err("Empty")
          /\ Unchanged]_vars

\* C6 witness: peek failed on a queue emptied at an index other than 0.
C6_Witness ==
    /\ op = "peek"
    /\ ret = Err("Empty")
    /\ start = end
    /\ start # 0
    /\ Len(popped) >= 1

\* C7: empty() is true exactly when start = end, which is exactly when no
\* element is stored: true on a fresh queue, false after a successful push,
\* true again once every accepted item has been returned; what the call
\* returned agrees with the direct test start = end.
C7_EmptyIffCursorsMeet ==
    /\ empty(self) = (start = end)
    /\ (start = end) = (Pending = <<>>)
    /\ op = "new" => empty(self)
    /\ (op = "push" /\ is_ok(ret)) => ~empty(self)
    /\ Len(popped) = Len(pushed) => empty(self)
    /\ op = "empty" => ret.val = (start = end)

\* C7 witness: empty() returned true on a queue that took items and was
\* emptied again at an index other than 0.
C7_Witness ==
    /\ op = "empty"
    /\ ret.val = TRUE
    /\ start # 0
    /\ Len(pushed) >= 1
    /\ Len(popped) = Len(pushed)

\* The values repeated pops return until one fails.
RECURSIVE PopAll(_)
PopAll(q) ==
    LET r == pop(q)
    IN  IF is_ok(r.ret) THEN <<r.ret.ok>> \o PopAll(r.q) ELSE <<>>

\* What a pop followed by a push of item does to a full queue q holding the
\* items waiting: both succeed, the queue is full again, and the pops after
\* them return the other stored elements first and item last.
PopThenPush(q, waiting, item) ==
    LET r1 == pop(q)
        r2 == push(r1.q, item)
    IN  /\ is_ok(r1.ret)
        /\ waiting # <<>>
        /\ r1.ret.ok = Head(waiting)
        /\ r2.ret = Ok(Unit)
        /\ Full(r2.q)
        /\ PopAll(r2.q) = Append(Tail(waiting), item)

\* C8 as stated: in every full state ((end + 1) mod SIZE = start), at any
\* cursor position, a pop followed by a push both succeed, the queue is full
\* again and the new element is popped after all that were stored.
C8_RefillAnyFull ==
    Full(self) => \A item \in Ty : PopThenPush(self, Pending, item)

\* C8 amended: the same for SIZE >= 2. With SIZE = 1 the only state is full
\* and empty at once and its pop fails.
C8_RefillFull ==
    (SIZE >= 2 /\ Full(self)) => \A item \in Ty : PopThenPush(self, Pending, item)

\* C8 witness: a queue of SIZE >= 3 that has returned an item is full again
\* after a push that moved end from index SIZE-1 to index 0.
C8_Witness ==
    /\ SIZE >= 3
    /\ Full(self)
    /\ op = "push"
    /\ is_ok(ret)
    /\ end = 0
    /\ Len(popped) >= 1

\* C9: a run of next() calls on a queue holding e1..ek (k from 0 to SIZE-1,
\* any cursor position) returns Some(e1), ..., Some(ek) in that order and
\* then None, and start = end when None is returned.
C9_DrainInOrder ==
    /\ Len(snap) <= SIZE - 1
    /\ \A i \in 1..Len(yielded) :
          yielded[i] = IF i <= Len(snap) THEN Some(snap[i]) ELSE None
    /\ (op = "next" /\ ret = Returned(None)) => start = end

\* C9 witness: a run of next() calls on a queue whose cursors had moved has
\* returned two different elements and then None.
C9_Witness ==
    /\ op = "next"
    /\ Len(snap) >= 2
    /\ snap[1] # snap[2]
    /\ Len(yielded) = Len(snap) + 1
    /\ Len(popped) > Len(snap)

\* C10: force_push has the effect of push when push succeeds (the same buff,
\* start and end); when push fails it panics with the queue as it was before
\* the call.
C10_ForcePush ==
    [][op' = "force_push" =>
          LET p == push(self, unwrap(arg'))
          IN  IF is_ok(p.ret)
              THEN /\ ret' = Returned(Unit)
                   /\ self' = p.q
              ELSE /\ is_panic(ret')
                   /\ Unchanged]_vars

\* C10 witness: force_push panicked on a full queue whose cursors are not
\* at their initial positions.
C10_Witness ==
    /\ op = "force_push"
    /\ is_panic(ret)
    /\ SIZE >= 3
    /\ start # 0
    /\ Len(Pending) = SIZE - 1

\* The number of stored elements: the items accepted and not yet returned.
Stored == Len(Pending)

\* C11: whenever start # end the slot at start holds an element; so peek
\* never returns UnknownError, and the unwrap in pop (and in next, which
\* calls pop) never panics.
C11_HeadSlotOccupied ==
    /\ start # end => is_some(buff[start])
    /\ peek(self) # Err("UnknownError")
    /\ ~is_panic(pop(self).ret)
    /\ ~is_panic(next(self).ret)
    /\ op = "peek" => ret # Err("UnknownError")
    /\ op \in {"pop", "next"} => ~is_panic(ret)

\* C11 witness: pop returned an element of a queue whose stored run wraps
\* past index SIZE-1 and that still holds one.
C11_Witness ==
    /\ op = "pop"
    /\ is_ok(ret)
    /\ start > end
    /\ Len(popped) >= 2
    /\ is_some(buff[start])

\* C12: start and end are indices of buff; the number of stored elements is
\* (end - start) mod SIZE and at most SIZE-1; start = end exactly when it is
\* 0; (end + 1) mod SIZE = start exactly when it is SIZE-1, which is exactly
\* when push fails.
C12_CursorArithmetic ==
    /\ start \in 0..(SIZE - 1)
    /\ end \in 0..(SIZE - 1)
    /\ Stored = (end - start + SIZE) % SIZE
    /\ Stored <= SIZE - 1
    /\ (start = end) = (Stored = 0)
    /\ Full(self) = (Stored = SIZE - 1)
    /\ \A item \in Ty : is_err(push(self, item).ret) = (Stored = SIZE - 1)
    /\ op = "push" /\ is_err(ret) => Stored = SIZE - 1

\* C12 witness: a push was refused by a queue of SIZE >= 3 holding SIZE-1
\* elements in a run that wraps (end < start).
C12_Witness ==
    /\ SIZE >= 3
    /\ op = "push"
    /\ is_err(ret)
    /\ end < start
    /\ Stored = SIZE - 1

\* Index i lies in the run start, start+1, ..., end-1 taken modulo SIZE.
InRun(q, i) == (i - q.start + SIZE) % SIZE < (q.end - q.start + SIZE) % SIZE

\* C13: the slots holding an element are exactly the indices of the run from
\* start to end-1 modulo SIZE and every slot outside it is vacant; so a pop
\* leaves its slot vacant and a successful push writes into a vacant slot.
C13_OccupiedRunExact ==
    /\ \A i \in 0..(SIZE - 1) : is_some(buff[i]) = InRun(self, i)
    /\ (op = "pop" /\ is_ok(ret)) => is_none(buff[(start + SIZE - 1) % SIZE])
    /\ \A item \in Ty : is_ok(push(self, item).ret) => is_none(buff[end])

\* What holds of C13 in every case: the slots of the run hold an element,
\* and a slot outside the run is vacant or still holds what new() left.
C13_RunOccupied ==
    /\ \A i \in 0..(SIZE - 1) : InRun(self, i) => is_some(buff[i])
    /\ \A i \in 0..(SIZE - 1) :
          ~InRun(self, i) => buff[i] \in {None, Some(ZeroBits)}

\* C14: a successful push(item) stores item in the slot at the old end, sets
\* end to (old end + 1) mod SIZE and leaves start and every other slot as
\* they were; push succeeds exactly when (end + 1) mod SIZE # start.
C14_PushFrame ==
    [][op' = "push" =>
          /\ is_ok(ret') = ((end + 1) % SIZE # start)
          /\ is_ok(ret') =>
                /\ buff' = [buff EXCEPT ![end] = arg']
                /\ end' = (end + 1) % SIZE
                /\ start' = start]_vars

\* C14 witness: a successful push wrote item 1 into slot SIZE-1 of a queue
\* of SIZE >= 3 and moved end to index 0.
C14_Witness ==
    /\ SIZE >= 3
    /\ op = "push"
    /\ is_ok(ret)
    /\ arg = Some(1)
    /\ end = 0
    /\ buff[SIZE - 1] = Some(1)
    /\ start # 0

\* C15: a successful pop returns the element in the slot at the old start,
\* makes that slot vacant, sets start to (old start + 1) mod SIZE and leaves
\* end and every other slot as they were; pop succeeds exactly when
\* start # end.
C15_PopFrame ==
    [][op' = "pop" =>
          /\ is_ok(ret') = (start # end)
          /\ is_ok(ret') =>
                /\ Some(ret'.ok) = buff[start]
                /\ buff' = [buff EXCEPT ![start] = None]
                /\ start' = (start + 1) % SIZE
                /\ end' = end]_vars

\* C15 witness: a successful pop emptied slot SIZE-1 of a queue of SIZE >= 3
\* and moved start to index 0, with an element left in the queue.
C15_Witness ==
    /\ SIZE >= 3
    /\ op = "pop"
    /\ is_ok(ret)
    /\ start = 0
    /\ Len(popped) >= SIZE
    /\ buff[SIZE - 1] = None
    /\ end # 0

\* The three states of the queue, by its cursors.
IsEmpty(q) == q.start = q.end
IsPartial(q) == ~IsEmpty(q) /\ ~Full(q)

\* A push at Full fails and stays Full; a pop at Empty fails and stays Empty.
FailingSteps ==
    /\ (op' = "push" /\ Full(self)) => is_err(ret') /\ Full(self')
    /\ (op' = "pop" /\ IsEmpty(self)) => is_err(ret') /\ IsEmpty(self')

\* A push moves Empty to Partially-Filled, and Partially-Filled to Full or
\* leaves it Partially-Filled; a pop moves Full to Partially-Filled, and
\* Partially-Filled to Empty or leaves it Partially-Filled.
StatedSteps ==
    /\ (op' = "push" /\ IsEmpty(self)) => IsPartial(self')
    /\ (op' = "push" /\ IsPartial(self)) => IsPartial(self') \/ Full(self')
    /\ (op' = "pop" /\ Full(self)) => IsPartial(self')
    /\ (op' = "pop" /\ IsPartial(self)) => IsPartial(self') \/ IsEmpty(self')

\* C16 as stated: for every SIZE >= 1 the states Empty, Full and
\* Partially-Filled are mutually exclusive and every push and pop follows
\* the stated transitions, never Empty to Full or Full to Empty directly.
C16_StateMachineAnySize ==
    [][/\ ~(IsEmpty(self) /\ Full(self))
       /\ StatedSteps
       /\ FailingSteps]_vars

\* C16 amended: the states are mutually exclusive for SIZE >= 2 and the
\* stated transitions hold for SIZE >= 3. For SIZE = 2 a successful push
\* moves Empty directly to Full and a successful pop Full directly to Empty;
\* for SIZE = 1 the only state is Empty and Full at once and every push and
\* pop fails. A push at Full fails and stays Full, a pop at Empty fails and
\* stays Empty, for every SIZE.
C16_StateMachine ==
    [][/\ SIZE >= 2 => ~(IsEmpty(self) /\ Full(self))
       /\ SIZE >= 3 => StatedSteps
       /\ SIZE = 2 =>
             /\ (op' = "push" /\ IsEmpty(self)) => is_ok(ret') /\ Full(self')
             /\ (op' = "pop" /\ Full(self)) => is_ok(ret') /\ IsEmpty(self')
       /\ SIZE = 1 =>
             /\ IsEmpty(self) /\ Full(self)
             /\ op' \in {"push", "pop"} => is_err(ret')
       /\ FailingSteps]_vars

\* C16 witness: a pop moved a queue of SIZE >= 3 from Full to
\* Partially-Filled, with start crossing from index SIZE-1 to index 0.
C16_Witness ==
    /\ SIZE >= 3
    /\ op = "pop"
    /\ is_ok(ret)
    /\ IsPartial(self)
    /\ Stored = SIZE - 2
    /\ start = 0
    /\ Len(popped) >= SIZE

\* C17: a queue of SIZE = 1 is permanently empty and full: in every state
\* push fails with QueueFull, pop and peek fail with Empty, empty() is true,
\* none of them (nor next) panics, and start = end = 0 with the single slot
\* vacant.
C17_SizeOneInert ==
    SIZE = 1 =>
        /\ start = 0
        /\ end = 0
        /\ is_none(buff[0])
        /\ \A item \in Ty : push(self, item) = [q |-> self, ret |-> Err("QueueFull")]
        /\ pop(self) = [q |-> self, ret |-> Err("Empty")]
        /\ peek(self) = Err("Empty")
        /\ empty(self)
        /\ next(self) = [q |-> self, ret |-> Returned(None)]
        /\ op \in {"push", "pop", "peek", "empty", "next"} => ~is_panic(ret)

\* C17 without the vacancy of the slot: what holds of a queue of SIZE = 1
\* whatever new() left in its slot.
C17_SizeOneCalls ==
    SIZE = 1 =>
        /\ start = 0
        /\ end = 0
        /\ buff[0] \in {None, Some(ZeroBits)}
        /\ \A item \in Ty : push(self, item) = [q |-> self, ret |-> Err("QueueFull")]
        /\ pop(self) = [q |-> self, ret |-> Err("Empty")]
        /\ peek(self) = Err("Empty")
        /\ empty(self)
        /\ next(self) = [q |-> self, ret |-> Returned(None)]
        /\ op \in {"push", "pop", "peek", "empty", "next"} => ~is_panic(ret)
        /\ \A item \in Ty : is_panic(force_push(self, item).ret)

\* The queue after pops repeated until one fails, at most n of them.
RECURSIVE Drained(_, _)
Drained(q, n) ==
    IF n = 0 \/ ~is_ok(pop(q).ret) THEN q ELSE Drained(pop(q).q, n - 1)

\* The queue after pushes of item repeated until one fails, at most n.
RECURSIVE Filled(_, _, _)
Filled(q, item, n) ==
    IF n = 0 \/ ~is_ok(push(q, item).ret)
    THEN q
    ELSE Filled(push(q, item).q, item, n - 1)

\* C18: for SIZE >= 2 no state is terminal: in every reachable state a push
\* or a pop succeeds, pops alone lead to an empty state and pushes alone to
\* a full one, whatever the position of the cursors.
C18_NoTerminalState ==
    SIZE >= 2 =>
        /\ (\A item \in Ty : is_ok(push(self, item).ret)) \/ is_ok(pop(self).ret)
        /\ IsEmpty(Drained(self, SIZE - 1))
        /\ pop(Drained(self, SIZE - 1)).ret = Err("Empty")
        /\ \A item \in Ty :
              /\ Full(Filled(self, item, SIZE - 1))
              /\ push(Filled(self, item, SIZE - 1), item).ret = Err("QueueFull")

\* C18 witness: a queue of SIZE >= 3 whose start has wrapped past index
\* SIZE-1 is neither empty nor full.
C18_Witness ==
    /\ SIZE >= 3
    /\ Len(popped) >= SIZE
    /\ IsPartial(self)
    /\ Running

\* C19: a run of next() calls ends: it returns Some exactly for the elements
\* stored when it began (at most SIZE-1) and None from then on, and once it
\* has returned None the queue is empty and a further next() returns None
\* and changes nothing.
C19_DrainEnds ==
    /\ Len(snap) <= SIZE - 1
    /\ \A i \in 1..Len(yielded) : is_some(yielded[i]) = (i <= Len(snap))
    /\ (yielded # <<>> /\ is_none(yielded[Len(yielded)])) =>
          /\ start = end
          /\ Pending = <<>>
          /\ next(self) = [q |-> self, ret |-> Returned(None)]
    /\ (op = "next" /\ Len(yielded) > Len(snap)) => ret = Returned(None)

\* C19 witness: a run of next() calls on a queue of SIZE >= 3 that held
\* SIZE-1 elements has returned them and then None twice.
C19_Witness ==
    /\ SIZE >= 3
    /\ op = "next"
    /\ Len(snap) = SIZE - 1
    /\ Len(yielded) = Len(snap) + 2
    /\ ret = Returned(None)

====
